---- MODULE Spec2Model ----
(***************************************************************************)
(* A model of src/src/main.ts of ai-content-crawler: the sentence chunker  *)
(* chunkText, and the crawl program around it (Actor.init, the request     *)
(* handler that assembles and pushes one record per page, Actor.exit).     *)
(*                                                                         *)
(* A string is a sequence of one-character strings, so that length, split, *)
(* trim, slice and join are computed as JavaScript computes them.          *)
(***************************************************************************)
EXTENDS Integers, Sequences, FiniteSets, TLC

\* ------------------------------------------------------------------ bounds

\* Longest text given to chunkText in the chunker specification.
MaxLen == 6
\* Largest chunkSize given to chunkText in the chunker specification.
MaxChunkSize == 3
\* Longest textContent of an extracted article in the crawl specification.
MaxContentLen == 2
\* Most requests one crawl handles in the crawl specification (maxPages).
MaxPages == 2

\* ------------------------------------------------------- characters, text

\* Characters of the bounded texts: a letter, a sentence terminal, two kinds
\* of whitespace.
Alphabet == {"a", ".", " ", "\n"}

\* What the regular expression class \s matches.
IsSpace(c) == c \in {" ", "\n", "\t"}

\* What the regular expression class [.!?] matches.
IsTerminal(c) == c \in {".", "!", "?"}

\* The texts of at most n characters.
TextsUpTo(n) == UNION {[1..k -> Alphabet] : k \in 0..n}

\* The first position >= p of s that holds no whitespace (Len(s)+1 if none):
\* where a greedy \s+ that starts at p ends.
RECURSIVE SkipSpaces(_, _)
SkipSpaces(s, p) ==
    IF p <= Len(s) /\ IsSpace(s[p]) THEN SkipSpaces(s, p + 1) ELSE p

\* s.split(/(?<=[.!?])\s+/) continued from position p, the piece under
\* construction starting at start.
RECURSIVE SplitSentencesFrom(_, _, _)
SplitSentencesFrom(s, start, p) ==
    IF p > Len(s)
    THEN <<SubSeq(s, start, Len(s))>>
    ELSE IF p > 1 /\ IsSpace(s[p]) /\ IsTerminal(s[p - 1])
         THEN LET q == SkipSpaces(s, p)
              IN  <<SubSeq(s, start, p - 1)>> \o SplitSentencesFrom(s, q, q)
         ELSE SplitSentencesFrom(s, start, p + 1)

\* text.split(/(?<=[.!?])\s+/): the sentence units. The empty text gives one
\* empty unit.
SplitSentences(s) == SplitSentencesFrom(s, 1, 1)

\* s.split(/\s+/) continued from position p.
RECURSIVE SplitWordsFrom(_, _, _)
SplitWordsFrom(s, start, p) ==
    IF p > Len(s)
    THEN <<SubSeq(s, start, Len(s))>>
    ELSE IF IsSpace(s[p])
         THEN LET q == SkipSpaces(s, p)
              IN  <<SubSeq(s, start, p - 1)>> \o SplitWordsFrom(s, q, q)
         ELSE SplitWordsFrom(s, start, p + 1)

\* s.split(/\s+/): leading or trailing whitespace gives an empty first or
\* last piece, the empty string gives one empty piece.
SplitWords(s) == SplitWordsFrom(s, 1, 1)

\* arr.slice(start): a negative start counts from the end, and -0 is 0.
JsSlice(arr, start) ==
    LET from == IF start < 0
                THEN (IF Len(arr) + start > 0 THEN Len(arr) + start ELSE 0)
                ELSE (IF start < Len(arr) THEN start ELSE Len(arr))
    IN  SubSeq(arr, from + 1, Len(arr))

\* arr.join(' ').
RECURSIVE JoinSpace(_)
JoinSpace(arr) ==
    IF arr = <<>> THEN <<>>
    ELSE IF Len(arr) = 1 THEN arr[1]
    ELSE arr[1] \o <<" ">> \o JoinSpace(Tail(arr))

\* s without its leading whitespace.
RECURSIVE TrimStart(_)
TrimStart(s) ==
    IF s # <<>> /\ IsSpace(s[1]) THEN TrimStart(Tail(s)) ELSE s

\* s without its trailing whitespace.
RECURSIVE TrimEnd(_)
TrimEnd(s) ==
    IF s # <<>> /\ IsSpace(s[Len(s)]) THEN TrimEnd(SubSeq(s, 1, Len(s) - 1)) ELSE s

\* s.trim().
Trim(s) == TrimEnd(TrimStart(s))

\* ---------------------------------------------------------------- chunkText

\* The characters one overlap word is taken to have.
CharsPerWord == 5

\* A slip in the close test: the buffer's own length is left out.
CloseConditionSentenceOnly(current, sentence, size) ==
    Len(sentence) > size /\ Len(current) > 0

\* The test that closes the buffer before the sentence goes in.
CloseCondition(current, sentence, size) ==
    Len(current) + Len(sentence) > size /\ Len(current) > 0

\* A slip in the push: index where index++ is meant.
NextIndexStuck(index) == index

\* index++ : the value the counter takes after a push.
NextIndex(index) == index + 1

\* The chunk pushed for a buffer.
MakeChunk(current, index) ==
    [text |-> Trim(current),
     index |-> index,
     metadata |-> [charCount |-> Len(Trim(current))]]

\* A slip in the overlap: the overlap taken as a number of words, not of
\* characters.
OverlapWordsNoDivision(current, overlap) ==
    JsSlice(SplitWords(current), -overlap)

\* words.slice(-Math.floor(overlap / 5)) of the buffer being closed.
OverlapWords(current, overlap) ==
    JsSlice(SplitWords(current), -(overlap \div CharsPerWord))

\* The buffer after a close: the overlap words, a space, the sentence.
Seed(current, overlap, sentence) ==
    JoinSpace(OverlapWords(current, overlap)) \o <<" ">> \o sentence

\* A slip in the append: the separating space is left out.
AppendSentenceNoSpace(current, sentence) == current \o sentence

\* current += (current ? ' ' : '') + sentence.
AppendSentence(current, sentence) ==
    current \o (IF current # <<>> THEN <<" ">> ELSE <<>>) \o sentence

\* One iteration of the sentence loop on the loop state
\* [chunks, current, index].
LoopBody(st, sentence, size, overlap) ==
    IF CloseCondition(st.current, sentence, size)
    THEN [chunks  |-> st.chunks \o <<MakeChunk(st.current, st.index)>>,
          current |-> Seed(st.current, overlap, sentence),
          index   |-> NextIndex(st.index)]
    ELSE [chunks  |-> st.chunks,
          current |-> AppendSentence(st.current, sentence),
          index   |-> st.index]

\* The push after the loop, made when the trimmed buffer is not empty.
FinalPush(st) ==
    IF Trim(st.current) # <<>>
    THEN [chunks  |-> st.chunks \o <<MakeChunk(st.current, st.index)>>,
          current |-> st.current,
          index   |-> NextIndex(st.index)]
    ELSE st

\* The loop state before the first sentence.
LoopStart == [chunks |-> <<>>, current |-> <<>>, index |-> 0]

\* The loop over the sentences from position p on.
RECURSIVE LoopFrom(_, _, _, _, _)
LoopFrom(st, sentences, p, size, overlap) ==
    IF p > Len(sentences) THEN st
    ELSE LoopFrom(LoopBody(st, sentences[p], size, overlap), sentences, p + 1, size, overlap)

\* chunkText(text, chunkSize, overlap): the chunks returned.
ChunkText(t, size, overlap) ==
    FinalPush(LoopFrom(LoopStart, SplitSentences(t), 1, size, overlap)).chunks

\* ------------------------------------------------- the chunker, step by step

\* The example of the specification: three sentences, chunkSize 40, overlap 10.
ExampleS1 ==
    <<"S", "e", "n", "t", "e", "n", "c", "e", " ", "o", "n", "e", " ", "i", "s", " ", "s",
      "h", "o", "r", "t", ".">>
ExampleS2 ==
    <<"S", "e", "n", "t", "e", "n", "c", "e", " ", "t", "w", "o", " ", "i", "s", " ", "a",
      "l", "s", "o", " ", "s", "h", "o", "r", "t", ".">>
ExampleS3 ==
    <<"S", "e", "n", "t", "e", "n", "c", "e", " ", "t", "h", "r", "e", "e", " ", "p", "u",
      "s", "h", "e", "s", " ", "t", "h", "e", " ", "l", "i", "m", "i", "t", " ", "o", "v",
      "e", "r", ".">>
ExampleText == ExampleS1 \o <<" ">> \o ExampleS2 \o <<" ">> \o ExampleS3
ExampleInput == [text |-> ExampleText, chunkSize |-> 40, overlap |-> 10]

\* The overlaps tried: no overlap, less than one word, one word, two words.
OverlapChoices == {0, 4, 5, 10}

\* The calls of chunkText explored: every bounded text with every bounded
\* positive chunk size and every overlap choice, and the example.
ChunkInputs ==
    [text : TextsUpTo(MaxLen), chunkSize : 1..MaxChunkSize, overlap : OverlapChoices]
        \cup {ExampleInput}

VARIABLES
    text,        \* chunkText's argument text
    chunkSize,   \* chunkText's argument chunkSize
    overlap,     \* chunkText's argument overlap
    sentences,   \* const sentences
    pos,         \* the position in sentences of the next loop iteration
    current,     \* let current
    index,       \* let index
    chunks,      \* const chunks
    cpc,         \* where chunkText is: "loop", "done" ("idle": not called)
    branch,      \* the branch the last iteration took: "close", "append" ("none" before)
    prev,        \* the buffer as the last iteration found it
    first,       \* the position in sentences of the first unit put in the buffer
    carry,       \* the overlap words the buffer was seeded with
    spans        \* per pushed chunk: the units put in its buffer, and its seed words

chunkVars == <<text, chunkSize, overlap, sentences, pos, current, index, chunks,
               cpc, branch, prev, first, carry, spans>>

VARIABLES
    pc,           \* where the program is: "start", "input", "run", "handled", "ran", "terminated"
    actor,        \* the Apify runtime: "none", "inited", "exited"
    config,       \* the destructured input
    pending,      \* requests queued and not yet taken
    handled,      \* requests the crawler is done with
    datasetSize,  \* records pushed to the dataset so far
    page,         \* the page of the request just handled
    pushed,       \* the records the handler just run gave to Actor.pushData
    outcome       \* how the request just handled ended: "skipped", "pushed", "failed" ("none": no request)

crawlVars == <<pc, actor, config, pending, handled, datasetSize, page, pushed, outcome>>

\* chunkText is entered: the text is split and the loop state initialised.
ChunkInit ==
    \E in \in ChunkInputs :
        /\ text = in.text
        /\ chunkSize = in.chunkSize
        /\ overlap = in.overlap
        /\ sentences = SplitSentences(in.text)
        /\ pos = 1
        /\ current = LoopStart.current
        /\ index = LoopStart.index
        /\ chunks = LoopStart.chunks
        /\ cpc = "loop"
        /\ branch = "none"
        /\ prev = <<>>
        /\ first = 1
        /\ carry = <<>>
        /\ spans = <<>>

\* One iteration of for (const sentence of sentences).
Iterate ==
    /\ cpc = "loop"
    /\ pos <= Len(sentences)
    /\ LET sentence == sentences[pos]
           st == LoopBody([chunks |-> chunks, current |-> current, index |-> index],
                          sentence, chunkSize, overlap)
           closes == CloseCondition(current, sentence, chunkSize)
       IN  /\ chunks' = st.chunks
           /\ current' = st.current
           /\ index' = st.index
           /\ branch' = IF closes THEN "close" ELSE "append"
           /\ first' = IF closes THEN pos ELSE first
           /\ carry' = IF closes THEN OverlapWords(current, overlap) ELSE carry
           /\ spans' = IF closes
                       THEN Append(spans, [first |-> first, last |-> pos - 1, carry |-> carry])
                       ELSE spans
    /\ prev' = current
    /\ pos' = pos + 1
    /\ UNCHANGED <<text, chunkSize, overlap, sentences, cpc>>
    /\ UNCHANGED crawlVars

\* The loop is over: the last buffer is pushed if it is not blank, and
\* chunkText returns.
Finish ==
    /\ cpc = "loop"
    /\ pos > Len(sentences)
    /\ LET st == FinalPush([chunks |-> chunks, current |-> current, index |-> index])
       IN  /\ chunks' = st.chunks
           /\ index' = st.index
           /\ spans' = IF Len(st.chunks) > Len(chunks)
                       THEN Append(spans, [first |-> first, last |-> Len(sentences), carry |-> carry])
                       ELSE spans
    /\ cpc' = "done"
    /\ UNCHANGED <<text, chunkSize, overlap, sentences, pos, current, branch, prev, first, carry>>
    /\ UNCHANGED crawlVars

\* ------------------------------------------------------- the crawl program

\* What turndown returns for an article's HTML: an opaque collaborator, so
\* its results are samples (blank, two sentences split by a newline).
MarkdownSamples == {<<>>, <<"a", ".", "\n", "a", ".">>}

\* A fetched page as the handler sees it: whether Readability found an
\* article, the article's textContent, and its markdown conversion.
NoArticlePage == [hasArticle |-> FALSE, textContent |-> <<>>, markdown |-> <<>>]
Pages ==
    [hasArticle : {TRUE}, textContent : TextsUpTo(MaxContentLen), markdown : MarkdownSamples]
        \cup {NoArticlePage}

\* The inputs Actor.getInput may return (the options the handler reads).
Configs ==
    [outputFormat : {"markdown", "text", "json"},
     chunkSize : {-1, 0, 1, 2},
     chunkOverlap : {0, 5},
     includeMetadata : BOOLEAN,
     followLinks : BOOLEAN]

\* The options before Actor.getInput has run.
NoConfig ==
    [outputFormat |-> "markdown", chunkSize |-> 0, chunkOverlap |-> 0,
     includeMetadata |-> TRUE, followLinks |-> FALSE]

\* s.replace(/\s+/g, ' '): every run of whitespace becomes one space (the
\* pieces between the runs, joined again with single spaces).
CollapseSpaces(s) == JoinSpace(SplitWords(s))

\* const plainText = article.textContent.replace(/\s+/g, ' ').trim().
PlainText(pg) == Trim(CollapseSpaces(pg.textContent))

\* metadata.wordCount: plainText.split(/\s+/).length.
WordCount(plainText) == Len(SplitWords(plainText))

\* A slip in the chunking test: >= where > is meant.
ChunkingEnabledAtZero(cfg) == cfg.chunkSize >= 0

\* if (chunkSize > 0).
ChunkingEnabled(cfg) == cfg.chunkSize > 0

\* const textToChunk = outputFormat === 'markdown' ? markdown : plainText.
TextToChunk(pg, cfg) ==
    IF cfg.outputFormat = "markdown" THEN pg.markdown ELSE PlainText(pg)

\* A slip in the handler: the early return is missing.
ArticleMissingIgnored(pg) == FALSE

\* if (!article) { ...; return; }
ArticleMissing(pg) == ~pg.hasArticle

\* The record the handler assembles for a page with an article: a function
\* whose domain is the record's keys (the scraped url, title and the other
\* metadata fields are opaque and left out).
BuildRecord(pg, cfg) ==
    LET plainText == PlainText(pg)
        base == ("content" :> (IF cfg.outputFormat = "text" THEN plainText ELSE <<>>))
                @@ ("metadata" :> [wordCount |-> WordCount(plainText)])
        withMarkdown == IF cfg.outputFormat \in {"markdown", "json"}
                        THEN base @@ ("markdown" :> pg.markdown)
                        ELSE base
        withChunks == IF ChunkingEnabled(cfg)
                      THEN withMarkdown @@
                           ("chunks" :> ChunkText(TextToChunk(pg, cfg), cfg.chunkSize, cfg.chunkOverlap))
                      ELSE withMarkdown
    IN  IF ~cfg.includeMetadata
        THEN [k \in (DOMAIN withChunks) \ {"metadata"} |-> withChunks[k]]
        ELSE withChunks

\* The records one run of requestHandler hands to Actor.pushData.
RequestHandlerPushes(pg, cfg) ==
    IF ArticleMissing(pg) THEN <<>> ELSE <<BuildRecord(pg, cfg)>>

vars == <<chunkVars, crawlVars>>

\* The chunker is not being stepped.
ChunkIdle ==
    /\ text = <<>> /\ chunkSize = 0 /\ overlap = 0 /\ sentences = <<>>
    /\ pos = 0 /\ current = <<>> /\ index = 0 /\ chunks = <<>>
    /\ cpc = "idle" /\ branch = "none" /\ prev = <<>>
    /\ first = 0 /\ carry = <<>> /\ spans = <<>>

\* The program has not started.
CrawlStart ==
    /\ pc = "start"
    /\ actor = "none"
    /\ config = NoConfig
    /\ pending = 0
    /\ handled = 0
    /\ datasetSize = 0
    /\ page = NoArticlePage
    /\ pushed = <<>>
    /\ outcome = "none"

\* await Actor.init().
ActorInit ==
    /\ pc = "start"
    /\ pc' = "input"
    /\ actor' = "inited"
    /\ UNCHANGED <<config, pending, handled, datasetSize, page, pushed, outcome>>
    /\ UNCHANGED chunkVars

\* Actor.getInput() and the destructuring, up to crawler.run(startUrls...)
\* with its start URLs queued.
GetInput ==
    /\ pc = "input"
    /\ \E cfg \in Configs, n \in 0..MaxPages :
        /\ config' = cfg
        /\ pending' = n
    /\ pc' = "run"
    /\ UNCHANGED <<actor, handled, datasetSize, page, pushed, outcome>>
    /\ UNCHANGED chunkVars

\* The crawler takes a request and runs requestHandler on the fetched page:
\* the handler returns early without an article, and otherwise pushes the
\* record it assembles and enqueues the page's links if followLinks.
RequestHandler ==
    /\ pc = "run" /\ pending > 0 /\ handled < MaxPages
    /\ \E fetched \in Pages :
        LET pushes == RequestHandlerPushes(fetched, config)
            \* enqueueLinks is reached only past the early return, and called
            \* only if followLinks; it adds the links it finds (none, or one)
            found == IF ~ArticleMissing(fetched) /\ config.followLinks THEN 0..1 ELSE {0}
        IN  /\ page' = fetched
            /\ pushed' = pushes
            /\ datasetSize' = datasetSize + Len(pushes)
            /\ outcome' = IF pushes = <<>> THEN "skipped" ELSE "pushed"
            /\ \E links \in found : pending' = pending - 1 + links
    /\ pc' = "handled"
    /\ UNCHANGED <<actor, config, handled>>
    /\ UNCHANGED chunkVars

\* A request whose fetch fails for good: failedRequestHandler logs it.
FailedRequestHandler ==
    /\ pc = "run" /\ pending > 0 /\ handled < MaxPages
    /\ pending' = pending - 1
    /\ outcome' = "failed"
    /\ pc' = "handled"
    /\ UNCHANGED <<actor, config, handled, datasetSize, page, pushed>>
    /\ UNCHANGED chunkVars

\* The handler has returned: the crawler marks the request handled and goes
\* back to its queue.
RequestDone ==
    /\ pc = "handled"
    /\ handled' = handled + 1
    /\ page' = NoArticlePage
    /\ pushed' = <<>>
    /\ outcome' = "none"
    /\ pc' = "run"
    /\ UNCHANGED <<actor, config, pending, datasetSize>>
    /\ UNCHANGED chunkVars

\* crawler.run resolves: the queue is empty or maxRequestsPerCrawl is reached.
RunResolves ==
    /\ pc = "run"
    /\ pending = 0 \/ handled >= MaxPages
    /\ pc' = "ran"
    /\ UNCHANGED <<actor, config, pending, handled, datasetSize, page, pushed, outcome>>
    /\ UNCHANGED chunkVars

\* crawler.run rejects (a fatal error of the crawl runtime): the top-level
\* await throws, nothing catches it, and the process ends.
RunRejects ==
    /\ pc = "run"
    /\ pc' = "terminated"
    /\ UNCHANGED <<actor, config, pending, handled, datasetSize, page, pushed, outcome>>
    /\ UNCHANGED chunkVars

\* await Actor.exit(), the last statement.
ActorExit ==
    /\ pc = "ran"
    /\ actor' = "exited"
    /\ pc' = "terminated"
    /\ UNCHANGED <<config, pending, handled, datasetSize, page, pushed, outcome>>
    /\ UNCHANGED chunkVars

\* ---------------------------------------------------------- specifications

\* The chunker alone: chunkText on every bounded input, one loop iteration
\* per step.
Init == ChunkInit /\ CrawlStart

Next == Iterate \/ Finish

Spec == Init /\ [][Next]_vars

\* The crawl program.
CrawlInit == ChunkIdle /\ CrawlStart

CrawlNext ==
    \/ ActorInit
    \/ GetInput
    \/ RequestHandler
    \/ FailedRequestHandler
    \/ RequestDone
    \/ RunResolves
    \/ RunRejects
    \/ ActorExit

CrawlSpec == CrawlInit /\ [][CrawlNext]_vars

\* ------------------------------------------------------------------ claims

\* Whether a is the end of b.
IsSuffix(a, b) ==
    /\ Len(a) <= Len(b)
    /\ SubSeq(b, Len(b) - Len(a) + 1, Len(b)) = a

\* The sentence units put in the buffer of chunk k as new content.
UnitsOf(k) == SubSeq(sentences, spans[k].first, spans[k].last)

\* The buffer of chunk k as the claims describe it: the carried words joined
\* and a space (nothing for the first chunk), then the new units joined by
\* single spaces.
ExpectedBuffer(k) ==
    (IF k = 1 THEN <<>> ELSE JoinSpace(spans[k].carry) \o <<" ">>) \o JoinSpace(UnitsOf(k))

\* The chunks take the units in order: chunk 1 starts at unit 1, every chunk
\* starts right after the one before and holds at least one unit, and the
\* carried words of a chunk are the last words of the buffer before it.
SpansInOrder ==
    /\ Len(spans) = Len(chunks)
    /\ \A k \in 1..Len(chunks) :
        /\ spans[k].first = (IF k = 1 THEN 1 ELSE spans[k - 1].last + 1)
        /\ spans[k].first <= spans[k].last
        /\ k > 1 => IsSuffix(spans[k].carry, SplitWords(ExpectedBuffer(k - 1)))

\* The text neither starts nor ends with whitespace.
NoEdgeWhitespace == text = Trim(text)

\* C1 (as claimed): with overlap = 0 a close carries nothing over, the buffer
\* that starts the next chunk holds only the current sentence unit (up to
\* the whitespace a chunk's trim removes).
C1_NoCarryOverAtZeroOverlap ==
    (overlap = 0 /\ branch = "close") => Trim(current) = Trim(sentences[pos - 1])

\* C2 (as claimed): when chunkText returns, every sentence unit is new
\* content of exactly one chunk, in order, and each chunk's text is exactly
\* its carried words followed by its units, unmodified (the empty text, which
\* has nothing to emit, set aside).
C2_UnitsReconstructedExactly ==
    cpc = "done" =>
        /\ SpansInOrder
        /\ \A k \in 1..Len(chunks) : chunks[k].text = ExpectedBuffer(k)
        /\ \/ text = <<>>
           \/ chunks # <<>> /\ spans[Len(spans)].last = Len(sentences)

\* C2 (amended): when chunkText returns, the chunks take the sentence units
\* in order, each unit new content of exactly one chunk, and each chunk's
\* text is its carried words followed by its units, trimmed; no unit is left
\* out unless the whole text is blank, which gives no chunk. For a text
\* that neither starts nor ends with whitespace the trim removes nothing,
\* and the claim holds as made.
C2_UnitsReconstructedUpToTrim ==
    /\ cpc = "done" =>
        /\ SpansInOrder
        /\ \A k \in 1..Len(chunks) : chunks[k].text = Trim(ExpectedBuffer(k))
        /\ IF chunks = <<>>
           THEN Trim(text) = <<>>
           ELSE spans[Len(spans)].last = Len(sentences)
    /\ NoEdgeWhitespace => C2_UnitsReconstructedExactly

\* C2's case: three units, each closed into a chunk of its own with one
\* word carried over.
C2_Witness ==
    /\ cpc = "done"
    /\ overlap = 5
    /\ Len(sentences) >= 3
    /\ Len(chunks) >= 3

\* The call is the example's.
IsExample == text = ExampleText /\ chunkSize = 40 /\ overlap = 10

\* C3 (as claimed): in the example the first chunk is closed when the third
\* sentence is processed and holds the first two sentences; the next buffer
\* is the last two words of the closed buffer and the third sentence.
C3_ExampleClosesAtThirdSentence ==
    IsExample =>
        /\ pos = 3 => chunks = <<>>
        /\ pos = 4 =>
            /\ Len(chunks) = 1
            /\ chunks[1].text = ExampleS1 \o <<" ">> \o ExampleS2
            /\ current = SubSeq(ExampleS2, 17, 27) \o <<" ">> \o ExampleS3

\* C3 (amended): in the example the first chunk is closed when the second
\* sentence is processed (22 + 27 > 40) and holds the first sentence alone;
\* the next buffer is the last two words of the closed buffer, "is short.",
\* a space and the second sentence.
C3_ExampleClosesAtSecondSentence ==
    IsExample =>
        /\ sentences = <<ExampleS1, ExampleS2, ExampleS3>>
        /\ pos = 2 => chunks = <<>> /\ current = ExampleS1
        /\ pos = 3 =>
            /\ branch = "close"
            /\ chunks = <<[text |-> ExampleS1, index |-> 0, metadata |-> [charCount |-> 22]]>>
            /\ current = SubSeq(ExampleS1, 14, 22) \o <<" ">> \o ExampleS2

\* C3's case: the example, its second sentence just processed.
C3_Witness == IsExample /\ pos = 3 /\ cpc = "loop"

\* A sentence unit longer than the chunk size.
Oversized(j) == Len(sentences[j]) > chunkSize

\* C4 (as claimed): a unit longer than chunkSize is the only new unit of one
\* chunk, and is in that chunk's text whole.
C4_OversizedUnitAloneWhole ==
    cpc = "done" =>
        \A j \in 1..Len(sentences) :
            Oversized(j) =>
                \E k \in 1..Len(chunks) :
                    /\ spans[k].first = j /\ spans[k].last = j
                    /\ IsSuffix(sentences[j], chunks[k].text)

\* C4 (amended): a unit longer than chunkSize that is not blank is the only
\* new unit of one chunk, and is in that chunk's text whole but for the
\* whitespace at its ends that the chunk's trim removes. For a text that
\* neither starts nor ends with whitespace the claim holds as made.
C4_OversizedUnitAloneUpToTrim ==
    /\ cpc = "done" =>
        \A j \in 1..Len(sentences) :
            (Oversized(j) /\ Trim(sentences[j]) # <<>>) =>
                \E k \in 1..Len(chunks) :
                    /\ spans[k].first = j /\ spans[k].last = j
                    /\ IsSuffix(Trim(sentences[j]), chunks[k].text)
    /\ NoEdgeWhitespace => C4_OversizedUnitAloneWhole

\* C4's case: an oversized unit between two other units.
C4_Witness ==
    /\ cpc = "done"
    /\ Len(sentences) >= 3
    /\ Oversized(2)
    /\ ~Oversized(1)
    /\ Len(chunks) >= 3

\* C5: in every state of the loop and at the return, the index counter is
\* the number of chunks pushed, and the chunks carry 0, 1, ..., N-1 in order.
C5_IndicesContiguous ==
    /\ index = Len(chunks)
    /\ \A k \in 1..Len(chunks) : chunks[k].index = k - 1

\* C5's case: chunkText has returned three chunks or more.
C5_Witness == cpc = "done" /\ Len(chunks) >= 3

\* C6: a handler run on a page without an article pushes nothing, one on a
\* page with an article pushes exactly one record; either way the handler
\* returns, and the crawler's next step is back to its queue, which the
\* handler's return left as it was.
C6_SkipOrOneRecord ==
    [][/\ (pc = "run" /\ pc' = "handled" /\ outcome' # "failed") =>
            /\ Len(pushed') = (IF page'.hasArticle THEN 1 ELSE 0)
            /\ datasetSize' = datasetSize + Len(pushed')
            /\ outcome' = (IF page'.hasArticle THEN "pushed" ELSE "skipped")
       /\ (pc = "handled" /\ outcome = "skipped") =>
            /\ pc' = "run"
            /\ pending' = pending
            /\ datasetSize' = datasetSize]_vars

\* C6's case: a page without an article was skipped after an earlier page
\* was pushed, and requests are still queued.
C6_Witness ==
    /\ pc = "handled"
    /\ outcome = "skipped"
    /\ datasetSize >= 1
    /\ pending > 0

\* C7: a pushed record has the key chunks exactly when chunkSize > 0, and
\* then it holds what chunkText returns for the text chosen by outputFormat.
C7_ChunksKeyIffEnabled ==
    outcome = "pushed" =>
        /\ Len(pushed) = 1
        /\ ("chunks" \in DOMAIN pushed[1]) <=> (config.chunkSize > 0)
        /\ config.chunkSize > 0 =>
            pushed[1]["chunks"] =
                ChunkText(IF config.outputFormat = "markdown"
                          THEN page.markdown
                          ELSE Trim(CollapseSpaces(page.textContent)),
                          config.chunkSize, config.chunkOverlap)

\* C7's case: chunking is on and chunkText returns no chunk: the key is
\* there, with an empty list.
C7_Witness ==
    /\ outcome = "pushed"
    /\ config.chunkSize > 0
    /\ "chunks" \in DOMAIN pushed[1]
    /\ pushed[1]["chunks"] = <<>>

\* The whitespace-delimited tokens of s: the places where a run of
\* non-whitespace starts.
TokenCount(s) ==
    Cardinality({i \in 1..Len(s) : ~IsSpace(s[i]) /\ (i = 1 \/ IsSpace(s[i - 1]))})

\* C8 (as claimed): metadata.wordCount is the number of whitespace-delimited
\* tokens of the collapsed content, 0 when it is empty or blank.
C8_WordCountIsTokenCount ==
    (outcome = "pushed" /\ "metadata" \in DOMAIN pushed[1]) =>
        pushed[1]["metadata"].wordCount = TokenCount(CollapseSpaces(page.textContent))

\* C9 (as claimed): a buffer that is not empty is closed whenever the
\* buffer, a space and the unit are longer than chunkSize, so the buffer is
\* never longer than chunkSize right after an append to a non-empty buffer.
C9_AppendStaysWithinLimit ==
    /\ (pos > 1 /\ prev # <<>> /\ Len(prev) + 1 + Len(sentences[pos - 1]) > chunkSize)
            => branch = "close"
    /\ (branch = "append" /\ prev # <<>>) => Len(current) <= chunkSize

\* C10 (as claimed): once Actor.init has run, the program does not end
\* without Actor.exit.
C10_TeardownOnEveryExit ==
    (pc = "terminated" /\ actor # "none") => actor = "exited"

====
